---- MODULE Spec2Model ----
(***************************************************************************)
(* Model of two parts of the sway toolchain:                               *)
(*   forc-client  op/run/encode.rs : Type, Token, ScriptCallHandler        *)
(*   sway-core    language/literal.rs : U256, Literal (Hash, PartialEq)    *)
(*                                                                         *)
(* Texts (Rust &str) are sequences of one-character strings, so that the   *)
(* parsers can be modelled character by character.  Fixed-width unsigned   *)
(* integers are big-endian sequences of bytes of the width of the Rust     *)
(* type, so that u32 and u64 keep their full range.                        *)
(***************************************************************************)
EXTENDS Integers, Sequences, FiniteSets, TLC

VARIABLES
    pc,             \* which operation acted last
    unit_words,     \* words the linked ABIEncoder emits for Token::Unit
    origin,         \* how call_handler came to be: "none", "schema", "literal"
    call_handler,   \* the ScriptCallHandler, or NoHandler
    values,         \* the caller's argument list (&[&str])
    encoded,        \* outcome of the last encode_arguments call, or NoCall
    examined,       \* per-argument parses the last encode_arguments call made
    built_types,    \* the parameter types the handler was constructed with
    prior,          \* kind of the outcome of the call before the last one
    resolved,       \* bytes of the last UnresolvedBytes::resolve, or NoBytes
    abi,            \* the ABI document given to from_json_abi_str
    built,          \* outcome of from_json_abi_str
    type_in,        \* schema type node given to Type::try_from / from_str
    type_out,       \* outcome of Type::from_str / Type::try_from
    big_in,         \* raw little-endian bytes the BigUint is made from
    u256_out,       \* outcome of U256::try_from
    lit_a,          \* first Literal
    lit_b,          \* second Literal
    hash_a,         \* hasher outcome for lit_a
    hash_b,         \* hasher outcome for lit_b
    eq_ab           \* lit_a == lit_b

vars == << pc, unit_words, origin, call_handler, values, encoded, examined,
           built_types, prior, resolved, abi, built, type_in, type_out, big_in, u256_out,
           lit_a, lit_b, hash_a, hash_b, eq_ab >>

handler_vars == << unit_words, origin, call_handler, values, encoded,
                   examined, built_types, prior, resolved >>
build_vars == << abi, built >>
type_vars == << type_in, type_out >>
u256_vars == << big_in, u256_out >>
literal_vars == << lit_a, lit_b, hash_a, hash_b, eq_ab >>

-----------------------------------------------------------------------------
(* Bounds of the model.                                                    *)

MaxParams == 2
MaxValues == 3
MaxFunctions == 2

-----------------------------------------------------------------------------
(* Results: Rust's Result<T, E>, plus a panic (unwinding out of the call). *)

Ok(v) == [kind |-> "Ok", val |-> v]
Err(m) == [kind |-> "Err", msg |-> m]
Panic(m) == [kind |-> "Panic", msg |-> m]

IsOk(r) == r.kind = "Ok"
IsErr(r) == r.kind = "Err"
IsPanic(r) == r.kind = "Panic"

Idle == [kind |-> "Idle"]

-----------------------------------------------------------------------------
(* Bytes and fixed-width unsigned integers.                                *)

ByteMax == 255
ByteBase == ByteMax + 1
WordBytes == 8

Zeros(n) == [i \in 1..n |-> 0]

\* bytes of the Rust types u8, u16, u32, u64
WidthBytes(ty) ==
    CASE ty = "U8" -> 1
      [] ty = "U16" -> 2
      [] ty = "U32" -> 4
      [] ty = "U64" -> 8

\* x * m + a on a big-endian byte sequence x of fixed length: << carry, bytes >>
RECURSIVE MulAdd(_, _, _)
MulAdd(x, m, a) ==
    IF x = << >> THEN << a, << >> >>
    ELSE LET n == Len(x)
             t == x[n] * m + a
             rest == MulAdd(SubSeq(x, 1, n - 1), m, t \div ByteBase)
         IN  << rest[1], Append(rest[2], t % ByteBase) >>

\* u{8,16,32,64}::checked_mul / checked_add: None (here NoInt) on overflow
NoInt == << -1 >>
checked_mul(x, m) ==
    LET r == MulAdd(x, m, 0) IN IF r[1] = 0 THEN r[2] ELSE NoInt
checked_add(x, a) ==
    LET r == MulAdd(x, 1, a) IN IF r[1] = 0 THEN r[2] ELSE NoInt

-----------------------------------------------------------------------------
(* The parsers of unsigned integers and of bool that encode.rs calls.      *)

Digits == << "0", "1", "2", "3", "4", "5", "6", "7", "8", "9" >>
IsDigit(c) == \E d \in 1..10 : Digits[d] = c
to_digit(c) == (CHOOSE d \in 1..10 : Digits[d] = c) - 1

\* the errors of the two parsers, by their Debug form
EmptyMsg == "ParseIntError { kind: Empty }"
InvalidDigitMsg == "ParseIntError { kind: InvalidDigit }"
PosOverflowMsg == "ParseIntError { kind: PosOverflow }"
ParseBoolMsg == "ParseBoolError"

\* the digit loop of from_str_radix: left to right, stopping at the first
\* invalid digit or overflow
RECURSIVE parse_digits(_, _)
parse_digits(acc, digits) ==
    IF digits = << >> THEN Ok(acc)
    ELSE IF ~IsDigit(Head(digits)) THEN Err(InvalidDigitMsg)
    ELSE LET mul == checked_mul(acc, 10)
         IN  IF mul = NoInt THEN Err(PosOverflowMsg)
             ELSE LET sum == checked_add(mul, to_digit(Head(digits)))
                  IN  IF sum = NoInt THEN Err(PosOverflowMsg)
                      ELSE parse_digits(sum, Tail(digits))

\* value.parse::<u8|u16|u32|u64>(): an optional "+", then decimal digits
parse_uint(ty, value) ==
    IF value = << >> THEN Err(EmptyMsg)
    ELSE IF Len(value) = 1 /\ Head(value) \in {"+", "-"} THEN Err(InvalidDigitMsg)
    ELSE LET digits == IF Head(value) = "+" THEN Tail(value) ELSE value
         IN  parse_digits(Zeros(WidthBytes(ty)), digits)

\* value.parse::<bool>(): exactly "true" or "false"
parse_bool(value) ==
    IF value = << "t", "r", "u", "e" >> THEN Ok(TRUE)
    ELSE IF value = << "f", "a", "l", "s", "e" >> THEN Ok(FALSE)
    ELSE Err(ParseBoolMsg)

-----------------------------------------------------------------------------
(* enum Type and Token::from_type_and_value.                               *)

Type ==
    { "Unit", "U8", "U16", "U32", "U64", "Bool", "Byte", "B256", "Array",
      "Vector", "String", "Struct", "Enum", "Tuple", "RawSlice" }

UIntTypes == { "U8", "U16", "U32", "U64" }

\* fuels_core::types::Token values
Token(ty, payload) == [ty |-> ty, payload |-> payload]
UnitPayload == << >>

from_type_and_value(arg_type, value) ==
    IF arg_type = "Unit" THEN Ok(Token("Unit", UnitPayload))
    ELSE IF arg_type \in UIntTypes THEN
        LET r == parse_uint(arg_type, value)
        IN  IF IsOk(r) THEN Ok(Token(arg_type, r.val)) ELSE r
    ELSE IF arg_type = "Bool" THEN
        LET r == parse_bool(value)
        IN  IF IsOk(r) THEN Ok(Token("Bool", r.val)) ELSE r
    ELSE Err(arg_type \o " is not supported.")

-----------------------------------------------------------------------------
(* fuels_core ABIEncoder::encode and UnresolvedBytes::resolve, as          *)
(* encode_arguments and its callers use them: every scalar token is one    *)
(* inline word, its value big-endian and right-justified.                  *)

Inline(bytes) == [kind |-> "Inline", bytes |-> bytes]

pad_word(bytes) == Zeros(WordBytes - Len(bytes)) \o bytes

\* the Data items of one token; uw is the number of words of a Token::Unit,
\* which the callers in encode.rs do not determine
encode_token(token, uw) ==
    CASE token.ty = "Unit" -> [i \in 1..uw |-> Inline(Zeros(WordBytes))]
      [] token.ty = "Bool" -> << Inline(pad_word(<< IF token.payload THEN 1 ELSE 0 >>)) >>
      [] OTHER -> << Inline(pad_word(token.payload)) >>

RECURSIVE encode_tokens(_, _)
encode_tokens(tokens, uw) ==
    IF tokens = << >> THEN << >>
    ELSE encode_token(Head(tokens), uw) \o encode_tokens(Tail(tokens), uw)

\* UnresolvedBytes::resolve(start_addr): inline data is copied as it is
RECURSIVE resolve(_, _)
resolve(data, start_addr) ==
    IF data = << >> THEN << >>
    ELSE Head(data).bytes \o resolve(Tail(data), start_addr)

-----------------------------------------------------------------------------
(* ScriptCallHandler::encode_arguments.                                    *)

Min(a, b) == IF a < b THEN a ELSE b

\* .iter().zip(values.iter()).map(from_type_and_value).collect::<Result<Vec>>():
\* pairs are taken in order and the first Err ends the iteration.
\* The outcome, with the number of pairs that were parsed.
\* mutant: the tokens are collected in reverse order
RECURSIVE collect_tokens_prepend(_, _, _, _)
collect_tokens_prepend(types, vals, i, acc) ==
    IF i > Min(Len(types), Len(vals)) THEN [res |-> Ok(acc), examined |-> i - 1]
    ELSE LET r == from_type_and_value(types[i], vals[i])
         IN  IF IsOk(r)
             THEN collect_tokens_prepend(types, vals, i + 1, << r.val >> \o acc)
             ELSE [res |-> r, examined |-> i]

\* mutant: every pair is parsed and the last error is the one reported
collect_tokens_last_error(types, vals, i, acc) ==
    LET n == Min(Len(types), Len(vals))
        bad == { j \in 1..n : ~IsOk(from_type_and_value(types[j], vals[j])) }
        last == CHOOSE j \in bad : \A k \in bad : k <= j
    IN  IF bad = {}
        THEN [res |-> Ok([j \in 1..n |-> from_type_and_value(types[j], vals[j]).val]),
              examined |-> n]
        ELSE [res |-> from_type_and_value(types[last], vals[last]), examined |-> n]

RECURSIVE collect_tokens(_, _, _, _)
collect_tokens(types, vals, i, acc) ==
    IF i > Min(Len(types), Len(vals)) THEN [res |-> Ok(acc), examined |-> i - 1]
    ELSE LET r == from_type_and_value(types[i], vals[i])
         IN  IF IsOk(r) THEN collect_tokens(types, vals, i + 1, Append(acc, r.val))
             ELSE [res |-> r, examined |-> i]

CountMsg(expected_arg_count, provided_arg_count) ==
    "main function takes " \o ToString(expected_arg_count) \o " arguments, "
        \o ToString(provided_arg_count) \o " provided"

\* mutant: the arguments are parsed before the counts are compared
encode_arguments_parse_first(main_arg_types, vals, uw) ==
    LET expected_arg_count == Len(main_arg_types)
        provided_arg_count == Len(vals)
        tokens == collect_tokens(main_arg_types, vals, 1, << >>)
    IN  IF ~IsOk(tokens.res) THEN tokens
        ELSE IF expected_arg_count # provided_arg_count
        THEN [res |-> Err(CountMsg(expected_arg_count, provided_arg_count)),
              examined |-> tokens.examined]
        ELSE [res |-> Ok(encode_tokens(tokens.res.val, uw)),
              examined |-> tokens.examined]

encode_arguments(main_arg_types, vals, uw) ==
    LET expected_arg_count == Len(main_arg_types)
        provided_arg_count == Len(vals)
    IN  IF expected_arg_count # provided_arg_count
        THEN [res |-> Err(CountMsg(expected_arg_count, provided_arg_count)),
              examined |-> 0]
        ELSE LET tokens == collect_tokens(main_arg_types, vals, 1, << >>)
             IN  IF IsOk(tokens.res)
                 THEN [res |-> Ok(encode_tokens(tokens.res.val, uw)),
                       examined |-> tokens.examined]
                 ELSE tokens

-----------------------------------------------------------------------------
(* Type::from_str and Type::try_from(&FullTypeApplication).                *)

\* mutant: the names are matched without regard to case
from_str_ignore_case(s) ==
    CASE s = "()" -> Ok("Unit")
      [] s \in { "u8", "U8" } -> Ok("U8")
      [] s \in { "u16", "U16" } -> Ok("U16")
      [] s \in { "u32", "U32" } -> Ok("U32")
      [] s \in { "u64", "U64" } -> Ok("U64")
      [] s \in { "bool", "Bool", "BOOL" } -> Ok("Bool")
      [] OTHER -> Err(s \o " type is not supported.")

\* mutant: the name table also knows the 256-bit type
from_str_with_b256(s) ==
    CASE s = "()" -> Ok("Unit")
      [] s = "u8" -> Ok("U8")
      [] s = "u16" -> Ok("U16")
      [] s = "u32" -> Ok("U32")
      [] s = "u64" -> Ok("U64")
      [] s = "bool" -> Ok("Bool")
      [] s = "b256" -> Ok("B256")
      [] OTHER -> Err(s \o " type is not supported.")

from_str(s) ==
    CASE s = "()" -> Ok("Unit")
      [] s = "u8" -> Ok("U8")
      [] s = "u16" -> Ok("U16")
      [] s = "u32" -> Ok("U32")
      [] s = "u64" -> Ok("U64")
      [] s = "bool" -> Ok("Bool")
      [] OTHER -> Err(s \o " type is not supported.")

\* a FullTypeApplication: the name of the parameter and its type declaration
TypeApplication(name, type_field) ==
    [name |-> name, type_decl |-> [type_field |-> type_field]]

try_from(value) ==
    LET type_field_string == value.type_decl.type_field
    IN  from_str(type_field_string)

-----------------------------------------------------------------------------
(* ScriptCallHandler::from_json_abi_str.  The JSON text is modelled by     *)
(* what FullProgramABI::from_json_abi makes of it: a text that is not an   *)
(* ABI document, or the list of the functions it declares.                 *)

MAIN_KEYWORD == "main"

JsonMsg == "invalid ABI JSON"
ExpectMsg == "every valid script needs to have a main function"

AbiFunction(name, inputs) == [name |-> name, inputs |-> inputs]
Malformed == [wellformed |-> FALSE, functions |-> << >>]
Document(functions) == [wellformed |-> TRUE, functions |-> functions]

\* FullProgramABI::from_json_abi
from_json_abi(json_abi_str) ==
    IF json_abi_str.wellformed THEN Ok(json_abi_str) ELSE Err(JsonMsg)

ScriptCallHandler(main_arg_types) == [main_arg_types |-> main_arg_types]

\* mutant: inputs of an unsupported type are left out
RECURSIVE collect_types_skip(_, _)
collect_types_skip(inputs, acc) ==
    IF inputs = << >> THEN Ok(acc)
    ELSE LET r == try_from(Head(inputs))
         IN  collect_types_skip(Tail(inputs), IF IsOk(r) THEN Append(acc, r.val) ELSE acc)

\* .iter().map(Type::try_from).collect::<Result<Vec>>(): the first Err ends it
RECURSIVE collect_types(_, _)
collect_types(inputs, acc) ==
    IF inputs = << >> THEN Ok(acc)
    ELSE LET r == try_from(Head(inputs))
         IN  IF IsOk(r) THEN collect_types(Tail(inputs), Append(acc, r.val))
             ELSE r

\* mutant: a document without main gives a handler without parameters
from_json_abi_str_default(json_abi_str) ==
    LET full_abi == from_json_abi(json_abi_str)
    IN  IF IsErr(full_abi) THEN full_abi
        ELSE LET functions == full_abi.val.functions
                 found == { i \in 1..Len(functions) : functions[i].name = MAIN_KEYWORD }
             IN  IF found = {} THEN Ok(ScriptCallHandler(<< >>))
                 ELSE LET main_function ==
                              functions[CHOOSE i \in found : \A j \in found : i <= j]
                          main_arg_types == collect_types(main_function.inputs, << >>)
                      IN  IF IsErr(main_arg_types) THEN main_arg_types
                          ELSE Ok(ScriptCallHandler(main_arg_types.val))

from_json_abi_str(json_abi_str) ==
    LET full_abi == from_json_abi(json_abi_str)
    IN  IF IsErr(full_abi) THEN full_abi
        ELSE LET functions == full_abi.val.functions
                 found == { i \in 1..Len(functions) : functions[i].name = MAIN_KEYWORD }
             IN  IF found = {} THEN Panic(ExpectMsg)
                 ELSE LET main_function ==
                              functions[CHOOSE i \in found : \A j \in found : i <= j]
                          main_arg_types == collect_types(main_function.inputs, << >>)
                      IN  IF IsErr(main_arg_types) THEN main_arg_types
                          ELSE Ok(ScriptCallHandler(main_arg_types.val))

-----------------------------------------------------------------------------
(* Inputs of the call handler.                                             *)

SeqsUpTo(S, n) == UNION { [1..k -> S] : k \in 0..n }

\* the texts a caller passes as values
Texts ==
    { << "2" >>,
      << "t", "r", "u", "e" >>,
      << "f", "a", "l", "s", "e" >>,
      << >>,
      << "+", "7" >>,
      << "-", "1" >>,
      << "2", "5", "6" >>,
      << "0", "6", "5", "5", "3", "5" >>,
      << "4", "2", "9", "4", "9", "6", "7", "2", "9", "6" >>,
      << "1", "8", "4", "4", "6", "7", "4", "4", "0", "7", "3", "7", "0", "9",
         "5", "5", "1", "6", "1", "5" >>,
      << "1", "8", "4", "4", "6", "7", "4", "4", "0", "7", "3", "7", "0", "9",
         "5", "5", "1", "6", "1", "6" >> }

\* the parameter types of handlers written as struct literals
LiteralTypes == { "Unit", "U8", "U16", "U32", "U64", "Bool", "B256", "Struct" }

\* the ABI documents of the call handler's tests, and variations of them
NoDoc == [wellformed |-> FALSE, functions |-> << >>, absent |-> TRUE]
SampleDocs ==
    { Malformed,
      Document(<< >>),
      Document(<< AbiFunction("main", << TypeApplication("test_u8", "u8"),
                                         TypeApplication("test_bool", "bool") >>) >>),
      Document(<< AbiFunction("helper", << TypeApplication("x", "u2") >>),
                  AbiFunction("main", << TypeApplication("a", "()"),
                                         TypeApplication("b", "u64") >>) >>),
      Document(<< AbiFunction("main", << TypeApplication("a", "u16"),
                                         TypeApplication("b", "b256") >>) >>),
      Document(<< AbiFunction("main", << >>) >>) }

Offsets == { 0, 8, 4096 }

-----------------------------------------------------------------------------
(* The state machine of one call handler.                                  *)

TypeIdle == type_in = Idle /\ type_out = Idle
U256Idle == big_in = Idle /\ u256_out = Idle
LiteralIdle ==
    lit_a = Idle /\ lit_b = Idle /\ hash_a = Idle /\ hash_b = Idle /\ eq_ab = Idle
HandlerIdle ==
    /\ unit_words = 0
    /\ origin = "none"
    /\ call_handler = ScriptCallHandler(<< >>)
    /\ built_types = << >>
    /\ prior = "none"
    /\ values = << >>
    /\ encoded = Idle
    /\ examined = 0
    /\ resolved = Idle

Init ==
    /\ pc = "start"
    /\ unit_words \in {0, 1}
    /\ origin = "none"
    /\ call_handler = ScriptCallHandler(<< >>)
    /\ built_types = << >>
    /\ prior = "none"
    /\ values = << >>
    /\ encoded = Idle
    /\ examined = 0
    /\ resolved = Idle
    /\ abi \in SampleDocs \cup {NoDoc}
    /\ built = Idle
    /\ TypeIdle /\ U256Idle /\ LiteralIdle

\* ScriptCallHandler::from_json_abi_str(abi)
FromJsonAbiStr ==
    /\ pc = "start"
    /\ abi # NoDoc
    /\ built' = from_json_abi_str(abi)
    /\ IF IsOk(built')
       THEN /\ call_handler' = built'.val
            /\ built_types' = built'.val.main_arg_types
            /\ origin' = "schema"
            /\ pc' = "ready"
       ELSE /\ UNCHANGED << call_handler, built_types, origin >>
            /\ pc' = "failed"
    /\ UNCHANGED << unit_words, values, encoded, examined, prior, resolved, abi >>
    /\ UNCHANGED << type_vars, u256_vars, literal_vars >>

\* ScriptCallHandler { main_arg_types: vec![..] }, as the tests write it
Construct(types) ==
    /\ pc = "start"
    /\ abi = NoDoc
    /\ call_handler' = ScriptCallHandler(types)
    /\ built_types' = types
    /\ origin' = "literal"
    /\ pc' = "ready"
    /\ UNCHANGED << unit_words, values, encoded, examined, prior, resolved, build_vars >>
    /\ UNCHANGED << type_vars, u256_vars, literal_vars >>

\* the kind of the outcome of the most recent call, "none" before any call
LastKind == IF encoded.kind = "Idle" THEN prior ELSE encoded.kind

\* the caller adds a text to the values of its next call
PushValue(text) ==
    /\ pc = "ready"
    /\ Len(values) < MaxValues
    /\ values' = Append(values, text)
    /\ encoded' = Idle
    /\ examined' = 0
    /\ resolved' = Idle
    /\ prior' = LastKind
    /\ UNCHANGED << pc, unit_words, origin, call_handler, built_types, build_vars >>
    /\ UNCHANGED << type_vars, u256_vars, literal_vars >>

\* the caller starts a new list of values
ClearValues ==
    /\ pc = "ready"
    /\ values # << >>
    /\ values' = << >>
    /\ encoded' = Idle
    /\ examined' = 0
    /\ resolved' = Idle
    /\ prior' = LastKind
    /\ UNCHANGED << pc, unit_words, origin, call_handler, built_types, build_vars >>
    /\ UNCHANGED << type_vars, u256_vars, literal_vars >>

\* mutant: the call takes the parameter types out of the handler
EncodeArgumentsDraining ==
    /\ pc = "ready"
    /\ LET r == encode_arguments(call_handler.main_arg_types, values, unit_words)
       IN  /\ encoded' = r.res
           /\ examined' = r.examined
    /\ call_handler' = ScriptCallHandler(<< >>)
    /\ prior' = LastKind
    /\ resolved' = Idle
    /\ UNCHANGED << pc, unit_words, origin, built_types, values, build_vars >>
    /\ UNCHANGED << type_vars, u256_vars, literal_vars >>

\* call_handler.encode_arguments(&values): &self, so the handler is only read
EncodeArguments ==
    /\ pc = "ready"
    /\ LET r == encode_arguments(call_handler.main_arg_types, values, unit_words)
       IN  /\ encoded' = r.res
           /\ examined' = r.examined
    /\ prior' = LastKind
    /\ resolved' = Idle
    /\ UNCHANGED << pc, unit_words, origin, call_handler, built_types, values, build_vars >>
    /\ UNCHANGED << type_vars, u256_vars, literal_vars >>

\* encoded.unwrap().resolve(start_addr)
Resolve(start_addr) ==
    /\ pc = "ready"
    /\ IsOk(encoded)
    /\ resolved' = [start_addr |-> start_addr, bytes |-> resolve(encoded.val, start_addr)]
    /\ UNCHANGED << pc, unit_words, origin, call_handler, built_types, values,
                    encoded, examined, prior, build_vars >>
    /\ UNCHANGED << type_vars, u256_vars, literal_vars >>

Next ==
    \/ FromJsonAbiStr
    \/ \E types \in SeqsUpTo(LiteralTypes, MaxParams) : Construct(types)
    \/ \E text \in Texts : PushValue(text)
    \/ ClearValues
    \/ EncodeArguments
    \/ \E start_addr \in Offsets : Resolve(start_addr)

Spec == Init /\ [][Next]_vars

-----------------------------------------------------------------------------
(* Vocabulary of the properties: what a text denotes, stated on the text   *)
(* itself and not through the parsers above.                               *)

Called == pc = "ready" /\ encoded.kind # "Idle"
ArgTypes == call_handler.main_arg_types

DecimalText(n) == Digits[n + 1]

\* an optional "+", then one or more decimal digits
DigitsOf(text) == IF text # << >> /\ Head(text) = "+" THEN Tail(text) ELSE text
IsUnsignedDecimal(text) ==
    /\ DigitsOf(text) # << >>
    /\ \A i \in 1..Len(DigitsOf(text)) : IsDigit(DigitsOf(text)[i])

\* the digits without leading zeros ("0" for zero)
RECURSIVE StripZeros(_)
StripZeros(ds) ==
    IF Len(ds) > 1 /\ Head(ds) = "0" THEN StripZeros(Tail(ds)) ELSE ds
Canonical(text) == StripZeros(DigitsOf(text))

\* the largest value of each unsigned type, in decimal
MaxText(ty) ==
    CASE ty = "U8" -> << "2", "5", "5" >>
      [] ty = "U16" -> << "6", "5", "5", "3", "5" >>
      [] ty = "U32" -> << "4", "2", "9", "4", "9", "6", "7", "2", "9", "5" >>
      [] ty = "U64" -> << "1", "8", "4", "4", "6", "7", "4", "4", "0", "7", "3",
                          "7", "0", "9", "5", "5", "1", "6", "1", "5" >>

\* a <= b for canonical digit sequences
RECURSIVE LexLeq(_, _)
LexLeq(a, b) ==
    IF a = << >> THEN TRUE
    ELSE IF to_digit(Head(a)) # to_digit(Head(b))
         THEN to_digit(Head(a)) < to_digit(Head(b))
         ELSE LexLeq(Tail(a), Tail(b))
DecimalLeq(a, b) == Len(a) < Len(b) \/ (Len(a) = Len(b) /\ LexLeq(a, b))

\* the text is a value of the declared type
Denotes(ty, text) ==
    CASE ty = "Unit" -> TRUE
      [] ty \in UIntTypes ->
            IsUnsignedDecimal(text) /\ DecimalLeq(Canonical(text), MaxText(ty))
      [] ty = "Bool" ->
            text \in { << "t", "r", "u", "e" >>, << "f", "a", "l", "s", "e" >> }
      [] OTHER -> FALSE

\* the decimal digits of a big-endian word, by long division by ten
RECURSIVE DivTen(_, _)
DivTen(bytes, rem) ==
    IF bytes = << >> THEN << << >>, rem >>
    ELSE LET cur == rem * 256 + Head(bytes)
             rest == DivTen(Tail(bytes), cur % 10)
         IN  << << cur \div 10 >> \o rest[1], rest[2] >>
IsZeroWord(bytes) == \A i \in 1..Len(bytes) : bytes[i] = 0
RECURSIVE DecimalOf(_)
DecimalOf(bytes) ==
    LET d == DivTen(bytes, 0)
    IN  IF IsZeroWord(d[1]) THEN << DecimalText(d[2]) >>
        ELSE Append(DecimalOf(d[1]), DecimalText(d[2]))

-----------------------------------------------------------------------------
\* C1: a call whose number of values differs from the number of declared
\* parameters fails with exactly "main function takes N arguments, M provided",
\* whatever the values and the declared types are, and parses no argument.
C1_CountMismatchMessage ==
    (Called /\ Len(ArgTypes) # Len(values)) =>
        /\ IsErr(encoded)
        /\ encoded.msg = "main function takes " \o DecimalText(Len(ArgTypes))
                            \o " arguments, " \o DecimalText(Len(values))
                            \o " provided"
        /\ examined = 0

\* a count mismatch where the first value does not parse and the first
\* declared type is not encodable
C1_Witness ==
    /\ Called
    /\ Len(ArgTypes) = 2 /\ Len(values) = 1
    /\ ArgTypes[1] = "B256"
    /\ ~Denotes("U8", values[1])
    /\ IsErr(encoded)

-----------------------------------------------------------------------------
ScalarTypes == UIntTypes \cup { "Bool" }
Word(bytes, i) == SubSeq(bytes, WordBytes * (i - 1) + 1, WordBytes * i)

\* the word that a text of a scalar type denotes
IsWordOf(word, ty, text) ==
    IF ty = "Bool"
    THEN word = << 0, 0, 0, 0, 0, 0, 0, IF text = << "t", "r", "u", "e" >> THEN 1 ELSE 0 >>
    ELSE Len(word) = 8 /\ DecimalOf(word) = Canonical(text)

\* C2: when encode_arguments succeeds on parameter types among U8, U16, U32,
\* U64 and Bool, the resolved buffer is one 8-byte big-endian word per
\* argument, in declared order and without padding, each word holding the
\* numeric value of its argument (true = 1, false = 0), for every base offset;
\* types [U8, Bool] with values ["2", "true"] give 0 0 0 0 0 0 0 2 0 0 0 0 0 0 0 1.
C2_WordLayout ==
    (pc = "ready" /\ resolved # Idle /\ \A i \in 1..Len(ArgTypes) : ArgTypes[i] \in ScalarTypes) =>
        /\ Len(resolved.bytes) = 8 * Len(ArgTypes)
        /\ \A i \in 1..Len(ArgTypes) :
              IsWordOf(Word(resolved.bytes, i), ArgTypes[i], values[i])
        /\ (ArgTypes = << "U8", "Bool" >> /\ values = << << "2" >>, << "t", "r", "u", "e" >> >>)
              => resolved.bytes = << 0, 0, 0, 0, 0, 0, 0, 2, 0, 0, 0, 0, 0, 0, 0, 1 >>

\* the largest u64 and a bool, resolved at a base offset other than zero
C2_Witness ==
    /\ pc = "ready"
    /\ ArgTypes = << "U64", "Bool" >>
    /\ Len(values) = 2 /\ Len(values[1]) = 20
    /\ resolved # Idle
    /\ resolved.start_addr = 4096
    /\ resolved.bytes = << 255, 255, 255, 255, 255, 255, 255, 255, 0, 0, 0, 0, 0, 0, 0, 1 >>

-----------------------------------------------------------------------------
FailingArgs == { i \in 1..Len(ArgTypes) : ~Denotes(ArgTypes[i], values[i]) }
FirstFailing == CHOOSE i \in FailingArgs : \A j \in FailingArgs : i <= j

\* C4: when the counts match and at least one value is not a value of its
\* declared type, encode_arguments fails with the error of the lowest-index
\* failing argument, examines no later argument and returns no buffer;
\* types [U8, Bool] with values ["true", "2"] fail.
C4_FirstParseError ==
    (Called /\ Len(ArgTypes) = Len(values) /\ FailingArgs # {}) =>
        /\ IsErr(encoded)
        /\ encoded = from_type_and_value(ArgTypes[FirstFailing], values[FirstFailing])
        /\ encoded.msg \in { EmptyMsg, InvalidDigitMsg, PosOverflowMsg, ParseBoolMsg,
                             ArgTypes[FirstFailing] \o " is not supported." }
        /\ examined = FirstFailing
        /\ resolved = Idle

\* types [U8, Bool] with values ["true", "2"]: both arguments fail, the first
\* is reported
C4_Witness ==
    /\ Called
    /\ ArgTypes = << "U8", "Bool" >>
    /\ values = << << "t", "r", "u", "e" >>, << "2" >> >>
    /\ IsErr(encoded)
    /\ encoded.msg = InvalidDigitMsg
    /\ examined = 1

-----------------------------------------------------------------------------
\* C10: once a handler exists, no step (a call of encode_arguments that
\* succeeds or fails, or anything the caller does between calls) changes its
\* parameter-type list, which stays the list it was constructed with, and a
\* call repeated on the same values returns the outcome it returned before,
\* whatever the outcome of the calls before it.
C10_HandlerNotMutated ==
    [][ pc = "ready" =>
          /\ call_handler' = call_handler
          /\ call_handler'.main_arg_types = built_types'
          /\ (Called /\ encoded'.kind # "Idle" /\ values' = values) => encoded' = encoded
      ]_vars

\* a successful call on a schema-built handler, after a call that failed
C10_Witness ==
    /\ Called
    /\ origin = "schema"
    /\ prior = "Err"
    /\ IsOk(encoded)
    /\ Len(values) = 2
    /\ ArgTypes = built_types

-----------------------------------------------------------------------------
(* from_json_abi_str on its own: the documents of a bounded shape.         *)

BuildTypeNames == { "u8", "bool", "u2", "b256" }
BuildInputs ==
    SeqsUpTo({ TypeApplication("arg", t) : t \in BuildTypeNames }, MaxParams)
BuildFunctions ==
    { AbiFunction("main", inputs) : inputs \in BuildInputs }
        \cup { AbiFunction("helper", << >>),
               AbiFunction("helper", << TypeApplication("arg", "u2") >>),
               AbiFunction("Main", << TypeApplication("arg", "u8") >>) }
BuildDocs ==
    { Malformed } \cup { Document(fs) : fs \in SeqsUpTo(BuildFunctions, MaxFunctions) }

InitBuild ==
    /\ pc = "start"
    /\ abi \in BuildDocs
    /\ built = Idle
    /\ HandlerIdle
    /\ prior = "none"
    /\ TypeIdle /\ U256Idle /\ LiteralIdle

NextBuild == FromJsonAbiStr

SpecBuild == InitBuild /\ [][NextBuild]_vars

HasMain(doc) == \E i \in 1..Len(doc.functions) : doc.functions[i].name = "main"
MainOf(doc) ==
    doc.functions[CHOOSE i \in 1..Len(doc.functions) :
                      /\ doc.functions[i].name = "main"
                      /\ \A j \in 1..(i - 1) : doc.functions[j].name # "main"]

\* the canonical name table
SupportedNames == { "()", "u8", "u16", "u32", "u64", "bool" }
TypeOfName ==
    ("()" :> "Unit") @@ ("u8" :> "U8") @@ ("u16" :> "U16") @@ ("u32" :> "U32")
        @@ ("u64" :> "U64") @@ ("bool" :> "Bool")

\* C3, as claimed: building from a well-formed document without a function
\* named main fails with an Err result returned to the caller.
C3_MissingMainIsErr ==
    (pc # "start" /\ abi.wellformed /\ ~HasMain(abi)) => IsErr(built)

\* C3, amended: building from a well-formed document without a function named
\* main builds no handler and fails by panicking with the message of the
\* expect, not with an Err result; the other failures of the build (a
\* malformed document, an unsupported type name) are Err results.
C3_MissingMainPanics ==
    pc # "start" =>
        /\ (abi.wellformed /\ ~HasMain(abi)) =>
              /\ IsPanic(built)
              /\ built.msg = "every valid script needs to have a main function"
              /\ origin = "none"
        /\ (~IsOk(built) /\ ~(abi.wellformed /\ ~HasMain(abi))) => IsErr(built)

\* the document of the test: an empty functions array
C3_Witness ==
    /\ pc = "failed"
    /\ abi = Document(<< >>)
    /\ IsPanic(built)

\* C6: from a document with a function named main, the handler's parameter
\* types are the types of main's inputs, as many and in the same order; if
\* the type name of an input is unsupported, the build returns the error of
\* the first such input and no handler.
C6_HandlerFromMain ==
    (pc # "start" /\ abi.wellformed /\ HasMain(abi)) =>
        LET inputs == MainOf(abi).inputs
            name(i) == inputs[i].type_decl.type_field
            bad == { i \in 1..Len(inputs) : name(i) \notin SupportedNames }
            first == CHOOSE i \in bad : \A j \in bad : i <= j
        IN  IF bad = {}
            THEN /\ IsOk(built)
                 /\ origin = "schema"
                 /\ call_handler = built.val
                 /\ Len(ArgTypes) = Len(inputs)
                 /\ \A i \in 1..Len(inputs) : ArgTypes[i] = TypeOfName[name(i)]
            ELSE /\ IsErr(built)
                 /\ built.msg = name(first) \o " type is not supported."
                 /\ origin = "none"

\* main follows a helper and declares a supported input before two
\* unsupported ones
C6_Witness ==
    /\ pc = "failed"
    /\ Len(abi.functions) = 2
    /\ abi.functions[1].name = "helper"
    /\ abi.functions[2] = AbiFunction("main", << TypeApplication("arg", "b256"),
                                                 TypeApplication("arg", "u2") >>)
    /\ built = Err("b256 type is not supported.")

-----------------------------------------------------------------------------
(* A handler built from a schema, then called: the documents declare one   *)
(* main function whose inputs are of supported and of unsupported types.   *)

\* type names as they stand in an ABI document
SchemaTypeNames ==
    { "()", "u8", "u16", "u32", "u64", "bool",
      "b256", "str[4]", "struct Vec", "Bool" }
SchemaDocs ==
    { Document(<< AbiFunction("main", inputs) >>) :
        inputs \in SeqsUpTo({ TypeApplication("arg", t) : t \in SchemaTypeNames },
                            MaxParams) }

\* the texts a caller passes to a schema-built handler
SchemaTexts == { << "2" >>, << "t", "r", "u", "e" >>, << "2", "5", "6" >> }

InitSchema ==
    /\ pc = "start"
    /\ unit_words \in {0, 1}
    /\ origin = "none"
    /\ call_handler = ScriptCallHandler(<< >>)
    /\ built_types = << >>
    /\ prior = "none"
    /\ values \in SeqsUpTo(SchemaTexts, MaxValues)
    /\ encoded = Idle
    /\ examined = 0
    /\ resolved = Idle
    /\ abi \in SchemaDocs
    /\ built = Idle
    /\ TypeIdle /\ U256Idle /\ LiteralIdle

NextSchema ==
    \/ FromJsonAbiStr
    \/ EncodeArguments

SpecSchema == InitSchema /\ [][NextSchema]_vars

\* the variants Token::from_type_and_value makes a token of
SupportedTypes == { "Unit", "U8", "U16", "U32", "U64", "Bool" }
UnsupportedMsgs == { t \o " is not supported." : t \in Type }
ParseMsgs == { EmptyMsg, InvalidDigitMsg, PosOverflowMsg, ParseBoolMsg }

\* C11: every handler returned by from_json_abi_str holds only types from
\* {Unit, U8, U16, U32, U64, Bool}; a document whose main declares an input
\* of any other type name is rejected at build time with "<name> type is not
\* supported." and gives no handler.  Hence encode_arguments on a
\* schema-built handler never fails with the "<Type> is not supported." error
\* of Token::from_type_and_value: it fails only with the count mismatch, when
\* the counts differ, or with the parse error of a value, when they agree.
C11_SchemaHandlerSupported ==
    /\ IsOk(built) =>
          \A i \in 1..Len(built.val.main_arg_types) :
              built.val.main_arg_types[i] \in SupportedTypes
    /\ origin = "schema" =>
          /\ IsOk(built)
          /\ \A i \in 1..Len(ArgTypes) : ArgTypes[i] \in SupportedTypes
    /\ (pc # "start" /\ abi.wellformed /\ HasMain(abi)) =>
          \A i \in 1..Len(MainOf(abi).inputs) :
              LET name == MainOf(abi).inputs[i].type_decl.type_field
              IN  name \notin SupportedNames =>
                      /\ IsErr(built)
                      /\ \E j \in 1..i :
                            built.msg = MainOf(abi).inputs[j].type_decl.type_field
                                            \o " type is not supported."
                      /\ origin = "none"
    /\ (origin = "schema" /\ Called) =>
          /\ ~IsPanic(encoded)
          /\ IsErr(encoded) =>
                /\ encoded.msg \notin UnsupportedMsgs
                /\ IF Len(values) # Len(ArgTypes)
                   THEN encoded.msg = CountMsg(Len(ArgTypes), Len(values))
                   ELSE encoded.msg \in ParseMsgs

\* a handler built from main((), u8) is called with ["2", "256"]: the call
\* fails on the second value, which does not fit a u8
C11_Witness ==
    /\ origin = "schema"
    /\ Called
    /\ abi = Document(<< AbiFunction("main", << TypeApplication("arg", "()"),
                                                TypeApplication("arg", "u8") >>) >>)
    /\ ArgTypes = << "Unit", "U8" >>
    /\ values = << << "2" >>, << "2", "5", "6" >> >>
    /\ encoded = Err(PosOverflowMsg)

-----------------------------------------------------------------------------
(* Type::from_str and Type::try_from on their own.                         *)

TypeNames ==
    SupportedNames \cup
        { "u2", "U8", "U64", "Bool", "BOOL", "( )", "", " u8", "u8 ", "u08",
          "u128", "u256", "b256", "byte", "str[4]", "[u8; 2]", "(u8, bool)",
          "struct Foo", "enum Bar", "struct Vec", "raw untyped slice", "Unit",
          "main" }
ParamNames == { "test_u8", "u8", "bool", "()" }
TypeNodes == { TypeApplication(n, t) : n \in ParamNames, t \in TypeNames }

InitType ==
    /\ pc = "start"
    /\ type_in \in TypeNodes
    /\ type_out = Idle
    /\ abi = NoDoc /\ built = Idle
    /\ HandlerIdle
    /\ prior = "none"
    /\ U256Idle /\ LiteralIdle

\* Type::from_str(name), on the type name of the node
FromStr ==
    /\ pc = "start"
    /\ type_out' = from_str(type_in.type_decl.type_field)
    /\ pc' = "from_str"
    /\ UNCHANGED << type_in, handler_vars, build_vars, u256_vars, literal_vars >>

\* Type::try_from(&node)
TryFrom ==
    /\ pc = "start"
    /\ type_out' = try_from(type_in)
    /\ pc' = "try_from"
    /\ UNCHANGED << type_in, handler_vars, build_vars, u256_vars, literal_vars >>

NextType == FromStr \/ TryFrom

SpecType == InitType /\ [][NextType]_vars

\* C5: Type::from_str matches the canonical names exactly and with regard to
\* case: "()" gives Unit, "u8" U8, "u16" U16, "u32" U32, "u64" U64, "bool"
\* Bool, and every other string s fails with "s type is not supported." ("u2"
\* with "u2 type is not supported."); resolving a schema type node gives what
\* from_str gives for the node's declared type name.
C5_NameTable ==
    pc \in { "from_str", "try_from" } =>
        LET s == type_in.type_decl.type_field
        IN  /\ s = "()" => type_out = Ok("Unit")
            /\ s = "u8" => type_out = Ok("U8")
            /\ s = "u16" => type_out = Ok("U16")
            /\ s = "u32" => type_out = Ok("U32")
            /\ s = "u64" => type_out = Ok("U64")
            /\ s = "bool" => type_out = Ok("Bool")
            /\ s \notin { "()", "u8", "u16", "u32", "u64", "bool" } =>
                  type_out = Err(s \o " type is not supported.")
            /\ s = "u2" => type_out = Err("u2 type is not supported.")

\* a node whose parameter is named like a type and whose type name differs
\* from a canonical name by case only
C5_Witness ==
    /\ pc = "try_from"
    /\ type_in = TypeApplication("u8", "Bool")
    /\ type_out = Err("Bool type is not supported.")

-----------------------------------------------------------------------------
(* literal.rs: U256 over BigUint.  A BigUint is modelled by its magnitude  *)
(* in little-endian bytes without most-significant zero bytes (zero is the *)
(* empty sequence), which is what equality of BigUint compares.            *)

U256Bytes == 32

\* index of the last byte that is not zero, 0 if there is none
\* (bytes.iter().rposition(|&d| d != 0).map_or(0, |i| i + 1))
RECURSIVE SignificantLen(_)
SignificantLen(bytes) ==
    IF bytes = << >> \/ bytes[Len(bytes)] # 0 THEN Len(bytes)
    ELSE SignificantLen(SubSeq(bytes, 1, Len(bytes) - 1))

\* BigUint::from_bytes_le and BigUint::to_bytes_le
from_bytes_le(bytes) == SubSeq(bytes, 1, SignificantLen(bytes))
to_bytes_le(value) == IF value = << >> THEN << 0 >> ELSE value

U256(value) == [value |-> value]
U256_eq(self, other) == self.value = other.value
U256_min == U256(from_bytes_le(<< 0 >>))
U256_max == U256(from_bytes_le([i \in 1..32 |-> ByteMax]))

\* mutant: a magnitude of exactly 32 bytes is rejected
U256_try_from_strict(value) ==
    LET bytes0 == to_bytes_le(value)
        bytes == IF bytes0[Len(bytes0)] = 0
                 THEN SubSeq(bytes0, 1, SignificantLen(bytes0))
                 ELSE bytes0
    IN  IF Len(bytes) < U256Bytes THEN Ok(U256(from_bytes_le(bytes)))
        ELSE Err("PosOverflow")

\* impl TryFrom<BigUint> for U256
U256_try_from(value) ==
    LET bytes0 == to_bytes_le(value)
        bytes == IF bytes0[Len(bytes0)] = 0
                 THEN SubSeq(bytes0, 1, SignificantLen(bytes0))
                 ELSE bytes0
    IN  IF Len(bytes) <= U256Bytes THEN Ok(U256(from_bytes_le(bytes)))
        ELSE Err("PosOverflow")

\* Bounds: the longest magnitude, and the most-significant zero bytes added
MaxBytes == 34
MaxPad == 2

\* magnitudes of every length: all bytes 255, all bytes 1, a power of 256,
\* and a multiple of 256
Magnitudes ==
    UNION { { [i \in 1..n |-> ByteMax],
              [i \in 1..n |-> 1],
              [i \in 1..n |-> IF i = n THEN 1 ELSE 0],
              [i \in 1..n |-> IF i = 1 THEN 0 ELSE ByteMax] } : n \in 0..MaxBytes }
RawBytes == { m \o Zeros(k) : m \in Magnitudes, k \in 0..MaxPad }

InitU256 ==
    /\ pc = "start"
    /\ big_in \in RawBytes
    /\ u256_out = Idle
    /\ abi = NoDoc /\ built = Idle
    /\ HandlerIdle
    /\ prior = "none"
    /\ TypeIdle /\ LiteralIdle

\* U256::try_from(BigUint::from_bytes_le(&big_in))
TryFromBigUint ==
    /\ pc = "start"
    /\ u256_out' = U256_try_from(from_bytes_le(big_in))
    /\ pc' = "converted"
    /\ UNCHANGED << big_in, handler_vars, build_vars, type_vars, literal_vars >>

NextU256 == TryFromBigUint

SpecU256 == InitU256 /\ [][NextU256]_vars

\* the bytes up to the last one that is not zero
RECURSIVE Minimal(_)
Minimal(bytes) ==
    IF bytes = << >> THEN << >>
    ELSE IF \A i \in 1..Len(bytes) : bytes[i] = 0 THEN << >>
    ELSE << Head(bytes) >> \o Minimal(Tail(bytes))

\* C7: U256::try_from(v) succeeds exactly when v has at most 32 significant
\* bytes, and the U256 is then numerically equal to v: equal to the U256 of
\* the minimal byte form, to U256::min() for zero and to U256::max() for
\* 2^256 - 1; with more than 32 significant bytes it fails with PosOverflow.
C7_U256TryFrom ==
    pc = "converted" =>
        LET v == Minimal(big_in)
        IN  /\ Len(v) <= 32 =>
                  /\ IsOk(u256_out)
                  /\ u256_out.val.value = v
                  /\ U256_eq(u256_out.val, U256(from_bytes_le(v)))
                  /\ v = << >> => U256_eq(u256_out.val, U256_min)
                  /\ v = [i \in 1..32 |-> 255] => U256_eq(u256_out.val, U256_max)
            /\ Len(v) > 32 => u256_out = Err("PosOverflow")

\* 2^256 - 1 given with two most-significant zero bytes
C7_Witness ==
    /\ pc = "converted"
    /\ Len(big_in) = 34
    /\ big_in[34] = 0 /\ big_in[33] = 0
    /\ \A i \in 1..32 : big_in[i] = 255
    /\ IsOk(u256_out)
    /\ U256_eq(u256_out.val, U256_max)

-----------------------------------------------------------------------------
(* literal.rs: enum Literal, impl Hash and impl PartialEq.  The Hasher is  *)
(* modelled by the sequence of bytes written to it; integers are written   *)
(* in their native byte order, here little-endian.                         *)

\* a Literal: the tag of its variant, and the value the variant holds.
\* Values of different Rust types are records of different fields.
Literal(tag, val) == [tag |-> tag, val |-> val]
UInt(n) == [n |-> n]
Bool(b) == [b |-> b]
Bytes(bytes) == [bytes |-> bytes]
BigUint(magnitude) == [magnitude |-> magnitude]

\* a span::Span: a range of the bytes of a source text
Span(src, start, end) == [src |-> src, start |-> start, end |-> end]
as_str(span) == SubSeq(span.src, span.start + 1, span.end)

RECURSIVE to_ne_bytes(_, _)
to_ne_bytes(x, n) ==
    IF n = 0 THEN << >> ELSE << x % ByteBase >> \o to_ne_bytes(x \div ByteBase, n - 1)

\* Hasher::write_u8, and Hash for u8, u16, u32, u64, bool, str, [u8; 32]
write_u8(state, b) == Append(state, b)
hash_uint(state, x, n) == state \o to_ne_bytes(x, n)
hash_bool(state, b) == write_u8(state, IF b THEN 1 ELSE 0)
hash_str(state, bytes) == write_u8(state \o bytes, ByteMax)
hash_slice_u8(state, bytes) == (state \o to_ne_bytes(Len(bytes), WordBytes)) \o bytes

\* Hash for BigUint: its vector of 64-bit digits, the length first
hash_biguint(state, value) ==
    LET words == (Len(value) + WordBytes - 1) \div WordBytes
    IN  ((state \o to_ne_bytes(words, WordBytes)) \o value)
            \o Zeros(words * WordBytes - Len(value))

\* impl Hash for Literal: the bytes written, or the panic of todo!()
Literal_hash(self) ==
    LET x == self.val
    IN  CASE self.tag = "U8" -> Ok(hash_uint(write_u8(<< >>, 1), x.n, 1))
          [] self.tag = "U16" -> Ok(hash_uint(write_u8(<< >>, 2), x.n, 2))
          [] self.tag = "U32" -> Ok(hash_uint(write_u8(<< >>, 3), x.n, 4))
          [] self.tag = "U64" -> Ok(hash_uint(write_u8(<< >>, 4), x.n, 8))
          [] self.tag = "U128" -> Panic("not yet implemented")
          [] self.tag = "U256" -> Panic("not yet implemented")
          [] self.tag = "Numeric" -> Ok(hash_biguint(write_u8(<< >>, 5), x.magnitude))
          [] self.tag = "String" -> Ok(hash_str(write_u8(<< >>, 6), as_str(x)))
          [] self.tag = "Boolean" -> Ok(hash_bool(write_u8(<< >>, 7), x.b))
          [] self.tag = "B256" -> Ok(hash_slice_u8(write_u8(<< >>, 8), x.bytes))

\* impl PartialEq for Literal
Literal_eq(self, other) ==
    IF self.tag # other.tag THEN FALSE
    ELSE CASE self.tag = "String" -> as_str(self.val) = as_str(other.val)
           [] self.tag = "U256" -> U256_eq(self.val, other.val)
           [] OTHER -> self.val = other.val

SourceText == << 97, 98, 97, 98 >>

Literals ==
    { Literal("U8", UInt(x)) : x \in { 1, 5 } }
        \cup { Literal("U16", UInt(x)) : x \in { 1, 5 } }
        \cup { Literal("U32", UInt(1)), Literal("U64", UInt(1)), Literal("U128", UInt(1)) }
        \cup { Literal("U256", U256_min), Literal("U256", U256_max) }
        \cup { Literal("String", Span(SourceText, 0, 2)),
               Literal("String", Span(SourceText, 2, 4)),
               Literal("String", Span(SourceText, 1, 2)) }
        \cup { Literal("Numeric", BigUint(v)) : v \in { << >>, << 1 >>, << 5 >> } }
        \cup { Literal("Boolean", Bool(b)) : b \in BOOLEAN }
        \cup { Literal("B256", Bytes(Zeros(32))), Literal("B256", Bytes(<< 1 >> \o Zeros(31))) }

InitHash ==
    /\ pc = "start"
    /\ lit_a \in Literals
    /\ lit_b \in Literals
    /\ hash_a = Idle /\ hash_b = Idle /\ eq_ab = Idle
    /\ abi = NoDoc /\ built = Idle
    /\ HandlerIdle
    /\ prior = "none"
    /\ TypeIdle /\ U256Idle

\* lit_a.hash(..), lit_b.hash(..) with a new hasher each, and lit_a == lit_b
HashAndCompare ==
    /\ pc = "start"
    /\ hash_a' = Literal_hash(lit_a)
    /\ hash_b' = Literal_hash(lit_b)
    /\ eq_ab' = Literal_eq(lit_a, lit_b)
    /\ pc' = "hashed"
    /\ UNCHANGED << lit_a, lit_b, handler_vars, build_vars, type_vars, u256_vars >>

NextHash == HashAndCompare

SpecHash == InitHash /\ [][NextHash]_vars

\* C8: hashing a Literal of any variant writes a discriminant byte that
\* differs from the discriminant of every other variant, and then the
\* payload; literals of different variants never compare equal and never
\* write the same bytes, and literals that compare equal write the same bytes.
C8_DiscriminantForEveryVariant ==
    pc = "hashed" =>
        /\ IsOk(hash_a) /\ IsOk(hash_b)
        /\ lit_a.tag # lit_b.tag =>
              /\ hash_a.val[1] # hash_b.val[1]
              /\ hash_a.val # hash_b.val
              /\ ~eq_ab
        /\ eq_ab => hash_a.val = hash_b.val

\* what holds of the variants whose hashing is implemented
Implemented(lit) == lit.tag \notin { "U128", "U256" }
C8_ImplementedVariants ==
    (pc = "hashed" /\ Implemented(lit_a) /\ Implemented(lit_b)) =>
        /\ IsOk(hash_a) /\ IsOk(hash_b)
        /\ lit_a.tag # lit_b.tag =>
              /\ hash_a.val[1] # hash_b.val[1]
              /\ hash_a.val # hash_b.val
              /\ ~eq_ab
        /\ eq_ab => hash_a.val = hash_b.val

====
